---- MODULE Spec2Model ----
(***************************************************************************)
(* Model of the word-puzzle solver (src/solver.py): one WordPuzzleSolver   *)
(* instance serving solve_puzzle requests.  A request's image is reduced   *)
(* to what the detection pipeline makes of it (unreadable, an exception    *)
(* part-way, or a list of letter observations); the synthesizer            *)
(* (_generate_word_swipes, _calculate_swipe_path) is modelled in full.     *)
(*                                                                         *)
(* A letter is a one-character string, a word a sequence of letters, an    *)
(* observation a record [letter, x, y].                                    *)
(*                                                                         *)
(* Further specifications follow single parts on their own: SpecDetect,    *)
(* _detect_letters strategy by strategy; SpecScan, the full scan's         *)
(* de-duplication; SpecPath, _calculate_swipe_path; SpecDict, the          *)
(* constructions of WordPuzzleSolver and the cache file they share;        *)
(* SpecUpload, the upload endpoints of src/app.py.  Each leaves the        *)
(* variables of the other parts at rest.                                   *)
(***************************************************************************)
EXTENDS Integers, Sequences, FiniteSets

VARIABLES
    OPENCV_AVAILABLE, \* the module's flag: whether `import cv2` succeeded
    dictionary,    \* self.dictionary: the set of words of this solver instance
    pc,            \* "idle": waiting for a request; "done": solve_puzzle has returned
    image,         \* the image of the request last served
    synth_raises,  \* whether something raised inside _generate_word_swipes in that request
    letters_data,  \* solve_puzzle's local letters_data (what _detect_letters returned)
    lengths_tried, \* the values the loop variable `length` took in _generate_word_swipes
    valid_words,   \* _generate_word_swipes' local valid_words after the sort (before the cut)
    result,        \* what solve_puzzle did: [raised |-> BOOLEAN, swipes |-> list]
    \* one call of _detect_letters, strategy by strategy
    d_pc,          \* "idle": not called yet; "done": _detect_letters has returned
    d_readable,    \* whether the image of that call could be read
    strategies,    \* the strategies the call ran, in order: [name, found, letters]
    detected,      \* the list the call returned
    \* calls of _calculate_swipe_path on one observation list
    sp_letters,    \* the argument letters_data
    sp_word,       \* the argument word of the last call
    sp_path,       \* what the last call returned
    sp_prev,       \* the call before the last: [word, path], or <<>>
    \* constructions of WordPuzzleSolver and the cache file they share
    cache,         \* english_words_cache.txt: [exists, slots]
    loaders,       \* per construction, where _load_dictionary stands and what it holds
    \* requests to the upload endpoints and the upload folder
    uploads,       \* the files in UPLOAD_FOLDER: [name, by], by the request that saved it
    requests       \* per request, where its handler stands

solveVars == <<dictionary, pc, image, synth_raises, letters_data, lengths_tried, valid_words, result>>
detVars == <<d_pc, d_readable, strategies, detected>>
pathVars == <<sp_letters, sp_word, sp_path, sp_prev>>
dictVars == <<cache, loaders>>
upVars == <<uploads, requests>>
vars == <<OPENCV_AVAILABLE, solveVars, detVars, pathVars, dictVars, upVars>>

----------------------------------------------------------------------------
(* Bounds of the model and constants of the program *)

\* longest observation list drawn freely from ObsPool
MaxObs == 4

\* range(3, ...): the shortest word length tried
MinWordLen == 3
\* min(len(available_letters) + 1, 8): the exclusive upper end of the range
RangeStop == 8
\* 'score': len(word) * 10
ScorePerLetter == 10
\* valid_words[:20]
MaxResults == 20

----------------------------------------------------------------------------
(* Inputs *)

Obs(l, px, py) == [letter |-> l, x |-> px, y |-> py]

\* the tiles the freely drawn observation lists are made of
ObsPool ==
    { Obs("A", 0, 0), Obs("A", 5, 5), Obs("T", 10, 0), Obs("P", 15, 0) }

RECURSIVE SeqsUpTo(_, _)
SeqsUpTo(S, n) ==
    IF n = 0 THEN { <<>> }
    ELSE LET shorter == SeqsUpTo(S, n - 1)
         IN  shorter \cup { Append(s, e) : s \in { t \in shorter : Len(t) = n - 1 }, e \in S }

\* two tiles A, one T, one P
TilesAATP == << Obs("A", 0, 0), Obs("A", 5, 5), Obs("T", 10, 0), Obs("P", 15, 0) >>

\* two tiles of the same letter and one other: E, E, S
TilesSEE == << Obs("S", 0, 0), Obs("E", 10, 0), Obs("E", 20, 0) >>

\* eight tiles, eight distinct letters
TilesTRIANGLE ==
    << Obs("T", 0, 0), Obs("R", 10, 0), Obs("I", 20, 0), Obs("A", 30, 0),
       Obs("N", 0, 10), Obs("G", 10, 10), Obs("L", 20, 10), Obs("E", 30, 10) >>

ObsLists == SeqsUpTo(ObsPool, MaxObs) \cup { TilesSEE, TilesTRIANGLE }

\* An image, as the detection pipeline sees it: whether cv2.imread (or
\* Image.open) can read it, whether something raises inside the pipeline,
\* and the observations the strategy chain yields otherwise.
Images ==
    { [readable |-> FALSE, raises |-> FALSE, letters |-> <<>>] }
    \cup { [readable |-> TRUE, raises |-> r, letters |-> l] : r \in BOOLEAN, l \in ObsLists }

\* Dictionaries a solver instance can hold (the cache file may hold any lines).
DictTAP == { <<"T","A","P">> }

DictSmall ==
    { <<"A","T">>, <<"P","A">>,
      <<"T","A","P">>, <<"P","A","T">>, <<"A","P","T">>, <<"A","R","T">>,
      <<"R","A","T">>, <<"T","A","R">>, <<"S","E","E">>, <<"T","A","T">>,
      <<"P","A","R","T">>, <<"T","R","A","P">>, <<"R","A","P","T">>,
      <<"T","A","R","P">>, <<"P","R","A","T">>, <<"T","A","P","A">> }

DictLong ==
    { <<"A","T">>,
      <<"R","A","T">>, <<"A","R","T">>, <<"T","A","R">>, <<"T","A","N">>,
      <<"A","N","T">>, <<"T","E","N">>, <<"N","E","T">>, <<"T","I","N">>,
      <<"E","A","T">>, <<"T","E","A">>, <<"A","T","E">>, <<"E","A","R">>,
      <<"A","R","E">>, <<"A","G","E">>, <<"L","E","G">>, <<"L","I","E">>,
      <<"R","A","I","N">>, <<"G","A","I","N">>, <<"T","E","A","R">>,
      <<"R","A","T","E">>, <<"L","A","T","E">>, <<"G","I","R","L">>,
      <<"T","R","A","I","N">>, <<"G","R","A","N","T">>, <<"A","N","G","L","E">>,
      <<"L","A","R","G","E">>,
      <<"T","A","N","G","L","E">>,
      <<"T","E","A","R","I","N","G">>, <<"G","R","A","N","I","T","E">>,
      <<"T","R","I","A","N","G","L","E">>, <<"I","N","T","E","G","R","A","L">> }

Dictionaries == { DictTAP, DictSmall, DictLong }

----------------------------------------------------------------------------
(* _calculate_swipe_path *)

\* as FirstUnused, without the test `i not in used_positions`
FirstMatching(letter, ld, used) ==
    LET hits == { i \in 1..Len(ld) : ld[i].letter = letter }
    IN  IF hits = {} THEN 0 ELSE CHOOSE i \in hits : \A j \in hits : i <= j

\* as FirstUnused, taking the last such index instead of the first
LastUnused(letter, ld, used) ==
    LET hits == { i \in 1..Len(ld) : ld[i].letter = letter /\ i \notin used }
    IN  IF hits = {} THEN 0 ELSE CHOOSE i \in hits : \A j \in hits : i >= j

\* the first index i, in detection order, with letters_data[i].letter = letter
\* and i not in used_positions; 0 when there is none
FirstUnused(letter, ld, used) ==
    LET hits == { i \in 1..Len(ld) : ld[i].letter = letter /\ i \notin used }
    IN  IF hits = {} THEN 0 ELSE CHOOSE i \in hits : \A j \in hits : i <= j

\* The walk over the word's letters from position k on.  A path entry is the
\* dict the code appends, {x, y, letter}; src is a ghost field, the index of
\* the observation the entry was taken from.  None is modelled as <<>>: the
\* caller tests `if path:`, which takes None and [] alike.
RECURSIVE WalkWord(_, _, _, _, _)
WalkWord(word, ld, k, used, path) ==
    IF k > Len(word) THEN path
    ELSE LET i == FirstUnused(word[k], ld, used)
         IN  IF i = 0 THEN <<>>
             ELSE WalkWord(word, ld, k + 1, used \cup {i},
                           Append(path, [x |-> ld[i].x, y |-> ld[i].y,
                                         letter |-> word[k], src |-> i]))

calculate_swipe_path(word, ld) == WalkWord(word, ld, 1, {}, <<>>)

----------------------------------------------------------------------------
(* _generate_word_swipes *)

Min(a, b) == IF a < b THEN a ELSE b

available_letters(ld) == [i \in 1..Len(ld) |-> ld[i].letter]

Candidate(word, path) == [word |-> word, path |-> path, score |-> Len(word) * ScorePerLetter]

IsPrefix(p, w) == Len(p) <= Len(w) /\ \A k \in 1..Len(p) : p[k] = w[k]

\* as TryCombination, with a prefix match in place of `word in self.dictionary`
TryCombinationPrefix(combination, ld, dict) ==
    LET word == [k \in 1..Len(combination) |-> available_letters(ld)[combination[k]]]
    IN  IF \E w \in dict : IsPrefix(word, w)
        THEN LET path == calculate_swipe_path(word, ld)
             IN  IF path # <<>> THEN << Candidate(word, path) >> ELSE <<>>
        ELSE <<>>

\* The body of the inner loop for one tuple of itertools.permutations: the
\* tuple is a sequence of indices into available_letters.
TryCombination(combination, ld, dict) ==
    LET word == [k \in 1..Len(combination) |-> available_letters(ld)[combination[k]]]
    IN  IF word \in dict
        THEN LET path == calculate_swipe_path(word, ld)
             IN  IF path # <<>> THEN << Candidate(word, path) >> ELSE <<>>
        ELSE <<>>

\* itertools.permutations(available_letters, length): the tuples of distinct
\* positions, in lexicographic order of the positions; each is handed to the
\* loop body as it is generated.  PermsFrom continues the tuple `prefix`,
\* PermsNext tries the positions i, i+1, ..., n for its next place.
RECURSIVE PermsFrom(_, _, _, _), PermsNext(_, _, _, _, _)
PermsFrom(prefix, length, ld, dict) ==
    IF Len(prefix) = length THEN TryCombination(prefix, ld, dict)
    ELSE PermsNext(prefix, 1, length, ld, dict)
PermsNext(prefix, i, length, ld, dict) ==
    IF i > Len(ld) THEN <<>>
    ELSE (IF \E k \in 1..Len(prefix) : prefix[k] = i THEN <<>>
          ELSE PermsFrom(Append(prefix, i), length, ld, dict))
         \o PermsNext(prefix, i + 1, length, ld, dict)

\* as LastLength, taking the end of the range as inclusive
LastLengthInclusive(ld) == Min(Len(ld) + 1, RangeStop)

\* range(3, min(len(available_letters) + 1, 8)): the last length tried
LastLength(ld) == Min(Len(ld) + 1, RangeStop) - 1

\* the outer loop: lengths from `length` up to LastLength, in order
RECURSIVE WordsFromLength(_, _, _)
WordsFromLength(length, ld, dict) ==
    IF length > LastLength(ld) THEN <<>>
    ELSE PermsFrom(<<>>, length, ld, dict) \o WordsFromLength(length + 1, ld, dict)

\* as KeyLE, with the key (score, len(word)): ascending
KeyLEAscending(a, b) ==
    \/ a.score < b.score
    \/ a.score = b.score /\ Len(a.word) <= Len(b.word)

\* the sort key of line 502: (-score, -len(word)), compared as tuples
KeyLE(a, b) ==
    \/ -a.score < -b.score
    \/ -a.score = -b.score /\ -Len(a.word) <= -Len(b.word)

\* list.sort is stable: an element goes behind every element whose key is
\* not greater than its own
RECURSIVE InsertStable(_, _)
InsertStable(sorted, c) ==
    IF sorted = <<>> THEN << c >>
    ELSE IF KeyLE(Head(sorted), c) THEN << Head(sorted) >> \o InsertStable(Tail(sorted), c)
         ELSE << c >> \o sorted

RECURSIVE SortStable(_, _)
SortStable(s, k) ==
    IF k = 0 THEN <<>> ELSE InsertStable(SortStable(s, k - 1), s[k])

\* as SortedWords, with the loop starting at length 2
SortedWordsFromTwo(ld, dict) ==
    LET found == WordsFromLength(MinWordLen - 1, ld, dict)
    IN  SortStable(found, Len(found))

SortedWords(ld, dict) ==
    LET found == WordsFromLength(MinWordLen, ld, dict)
    IN  SortStable(found, Len(found))

\* as Truncate, keeping the tail: valid_words[-20:]
TruncateTail(s) == SubSeq(s, Len(s) - Min(Len(s), MaxResults) + 1, Len(s))

\* valid_words[:20]
Truncate(s) == SubSeq(s, 1, Min(Len(s), MaxResults))

\* What a call leaves behind: whether it raised, the value it returned, and
\* (ghosts) the locals the claims speak of.
Ret(v, tried, words) == [exc |-> FALSE, val |-> v, lengths_tried |-> tried, valid_words |-> words]
Raise == [exc |-> TRUE, val |-> <<>>, lengths_tried |-> {}, valid_words |-> <<>>]

\* the try block of _generate_word_swipes; `raises`: something in it raises
generate_word_swipes_try(ld, dict, raises) ==
    IF ld = <<>> THEN Ret(<<>>, {}, <<>>)
    ELSE IF raises THEN Raise
    ELSE LET sorted == SortedWords(ld, dict)
         IN  Ret(Truncate(sorted), MinWordLen..LastLength(ld), sorted)

\* except Exception: return []
generate_word_swipes(ld, dict, raises) ==
    LET o == generate_word_swipes_try(ld, dict, raises)
    IN  IF o.exc THEN Ret(<<>>, {}, <<>>) ELSE o

----------------------------------------------------------------------------
(* _detect_letters and solve_puzzle *)

\* the try block of _detect_letters_opencv: [] for an image cv2.imread does
\* not load, else what the strategy chain yields, unless something raises
detect_letters_opencv_try(img) ==
    IF ~img.readable THEN Ret(<<>>, {}, <<>>)
    ELSE IF img.raises THEN Raise
    ELSE Ret(img.letters, {}, <<>>)

\* as detect_letters_opencv, the except clause returning what was found so far
detect_letters_opencv_partial(img) ==
    LET o == detect_letters_opencv_try(img)
    IN  IF o.exc THEN Ret(img.letters, {}, <<>>) ELSE o

\* except Exception: return []
detect_letters_opencv(img) ==
    LET o == detect_letters_opencv_try(img)
    IN  IF o.exc THEN Ret(<<>>, {}, <<>>) ELSE o

\* the try block of _detect_letters_pil: Image.open raises for an image it
\* cannot read
detect_letters_pil_try(img) ==
    IF ~img.readable THEN Raise
    ELSE IF img.raises THEN Raise
    ELSE Ret(img.letters, {}, <<>>)

\* except Exception: return []
detect_letters_pil(img) ==
    LET o == detect_letters_pil_try(img)
    IN  IF o.exc THEN Ret(<<>>, {}, <<>>) ELSE o

\* _detect_letters: the same try/except around the call of either
detect_letters(img, opencv) ==
    LET o == IF opencv THEN detect_letters_opencv(img) ELSE detect_letters_pil(img)
    IN  IF o.exc THEN Ret(<<>>, {}, <<>>) ELSE o

\* What solve_puzzle did: the dict it returned, {"swipes": swipes}, or the
\* exception it let through; letters_data, lengths_tried and valid_words are
\* the locals of the call.
Outcome(raised, swipes, ld, tried, words) ==
    [raised |-> raised, swipes |-> swipes, letters_data |-> ld,
     lengths_tried |-> tried, valid_words |-> words]

\* the try block of solve_puzzle
solve_puzzle_try(img, dict, raises, opencv) ==
    LET d == detect_letters(img, opencv)
    IN  IF d.exc THEN Outcome(TRUE, <<>>, <<>>, {}, <<>>)
        ELSE IF d.val = <<>> THEN Outcome(FALSE, <<>>, d.val, {}, <<>>)
        ELSE LET g == generate_word_swipes(d.val, dict, raises)
             IN  IF g.exc THEN Outcome(TRUE, <<>>, d.val, {}, <<>>)
                 ELSE Outcome(FALSE, g.val, d.val, g.lengths_tried, g.valid_words)

\* except Exception: return {"swipes": []}
solve_puzzle(img, dict, raises, opencv) ==
    LET o == solve_puzzle_try(img, dict, raises, opencv)
    IN  IF o.raised THEN Outcome(FALSE, <<>>, o.letters_data, {}, <<>>) ELSE o

----------------------------------------------------------------------------
(* The state machine *)

NoImage == [readable |-> FALSE, raises |-> FALSE, letters |-> <<>>]

\* no call of _detect_letters is followed
DetQuiet ==
    /\ d_pc = "idle"
    /\ d_readable = FALSE
    /\ strategies = <<>>
    /\ detected = <<>>

\* _calculate_swipe_path is not followed on its own
PathQuiet ==
    /\ sp_letters = <<>>
    /\ sp_word = <<>>
    /\ sp_path = <<>>
    /\ sp_prev = <<>>

\* no construction is followed: the dictionary is given
DictQuiet ==
    /\ cache = [exists |-> FALSE, slots |-> <<>>, given |-> FALSE]
    /\ loaders = <<>>

\* no upload is followed
UpQuiet ==
    /\ uploads = {}
    /\ requests = <<>>

Init ==
    /\ OPENCV_AVAILABLE \in BOOLEAN
    /\ DetQuiet /\ PathQuiet /\ DictQuiet /\ UpQuiet
    /\ dictionary \in Dictionaries
    /\ pc = "idle"
    /\ image = NoImage
    /\ synth_raises = FALSE
    /\ letters_data = <<>>
    /\ lengths_tried = {}
    /\ valid_words = <<>>
    /\ result = [raised |-> FALSE, swipes |-> <<>>]

\* one call of solver.solve_puzzle(image_path)
SolvePuzzle(img, raises) ==
    /\ pc = "idle"
    /\ pc' = "done"
    /\ image' = img
    /\ synth_raises' = raises
    /\ \E o \in { solve_puzzle(img, dictionary, raises, OPENCV_AVAILABLE) } :
           /\ letters_data' = o.letters_data
           /\ lengths_tried' = o.lengths_tried
           /\ valid_words' = o.valid_words
           /\ result' = [raised |-> o.raised, swipes |-> o.swipes]
    /\ UNCHANGED <<OPENCV_AVAILABLE, dictionary, detVars, pathVars, dictVars, upVars>>

\* the caller has taken the result; the solver waits for the next request
NextRequest ==
    /\ pc = "done"
    /\ pc' = "idle"
    /\ image' = NoImage
    /\ synth_raises' = FALSE
    /\ letters_data' = <<>>
    /\ lengths_tried' = {}
    /\ valid_words' = <<>>
    /\ result' = [raised |-> FALSE, swipes |-> <<>>]
    /\ UNCHANGED <<OPENCV_AVAILABLE, dictionary, detVars, pathVars, dictVars, upVars>>

\* a request arrives with some image
Request ==
    /\ pc = "idle"
    /\ \E img \in Images, raises \in BOOLEAN : SolvePuzzle(img, raises)

Next ==
    \/ Request
    \/ NextRequest

Spec == Init /\ [][Next]_vars

----------------------------------------------------------------------------
(* The detection strategies.  What OpenCV and the recognizer find in the   *)
(* pixels is the input: circles and boxes with the text pytesseract reads  *)
(* in them.  A text is a sequence of characters; a confidence is kept in   *)
(* hundredths (0.8 is 80).                                                 *)

\* if letters and len(letters) >= 3
MinViable == 3
\* abs(...) < 30 in the full scan's duplicate test
DupTolerance == 30
\* if conf > 30
MinConf == 30

\* the size of the image of a call: img.shape / img.size
ImageSize == [w |-> 200, h |-> 400]

AlphaChars == { "A", "T", "P", "S", "E", "a", "t" }

\* str.upper on one character
Upper(c) == IF c = "a" THEN "A" ELSE IF c = "t" THEN "T" ELSE c

\* str.isalpha: every character a letter, and at least one character
IsAlpha(text) == text # <<>> /\ \A k \in 1..Len(text) : text[k] \in AlphaChars

\* letter and letter.isalpha() and len(letter) == 1
SingleLetter(text) == text # <<>> /\ IsAlpha(text) /\ Len(text) = 1

DetObs(l, px, py, conf) == [letter |-> l, x |-> px, y |-> py, confidence |-> conf]

\* int(h * 0.6), int(h * 0.2), ... for a height h >= 0 and tenths t
Tenths(h, t) == (h * t) \div 10

\* What a strategy is given: found.raises, something in its try block
\* raises; found.regions, what it finds otherwise.
Found(regions) == [raises |-> FALSE, regions |-> regions]
FoundRaises == [raises |-> TRUE, regions |-> <<>>]

\* _detect_circular_wheel: one observation per circle (x, y, r) whose region
\* reads as a single letter, at the circle's centre, moved down by the offset
\* of the bottom section.  (A Hough circle has r >= 10 and its centre in the
\* section, so roi.size > 0.)
RECURSIVE CircleLetters(_, _)
CircleLetters(circles, h) ==
    IF circles = <<>> THEN <<>>
    ELSE LET c == Head(circles)
         IN  (IF SingleLetter(c.text)
              THEN << DetObs(Upper(c.text[1]), c.x, c.y + Tenths(h, 6), 80) >>
              ELSE <<>>)
             \o CircleLetters(Tail(circles), h)

detect_circular_wheel(found, h) ==
    IF found.raises THEN <<>> ELSE CircleLetters(found.regions, h)

\* _detect_grid_layout: the contours' bounding boxes between 15 and 60 pixels
\* each way that read as a single letter
RECURSIVE GridLetters(_, _)
GridLetters(boxes, h) ==
    IF boxes = <<>> THEN <<>>
    ELSE LET b == Head(boxes)
         IN  (IF /\ 15 <= b.w /\ b.w <= 60 /\ 15 <= b.h /\ b.h <= 60
                 /\ SingleLetter(b.text)
              THEN << DetObs(Upper(b.text[1]), b.x + b.w \div 2,
                             b.y + b.h \div 2 + Tenths(h, 2), 70) >>
              ELSE <<>>)
             \o GridLetters(Tail(boxes), h)

detect_grid_layout(found, h) ==
    IF found.raises THEN <<>> ELSE GridLetters(found.regions, h)

\* _detect_letters_fallback: the contours of area between 100 and 5000 and of
\* aspect ratio w / h between 0.2 and 2.0 that read as a single letter
RECURSIVE FallbackLetters(_)
FallbackLetters(boxes) ==
    IF boxes = <<>> THEN <<>>
    ELSE LET b == Head(boxes)
         IN  (IF /\ 100 < b.area /\ b.area < 5000
                 /\ 2 * b.h < 10 * b.w /\ b.w < 2 * b.h
                 /\ SingleLetter(b.text)
              THEN << DetObs(Upper(b.text[1]), b.x + b.w \div 2, b.y + b.h \div 2, 60) >>
              ELSE <<>>)
             \o FallbackLetters(Tail(boxes))

detect_letters_fallback(found) ==
    IF found.raises THEN <<>> ELSE FallbackLetters(found.regions)

\* The full scan reads the whole image under three thresholds (approaches);
\* an approach gives the entries of pytesseract.image_to_data (text, conf,
\* left, top, width, height) or raises, and is then skipped.
RECURSIVE ScanLetters(_)
ScanLetters(entries) ==
    IF entries = <<>> THEN <<>>
    ELSE LET e == Head(entries)
         IN  (IF SingleLetter(e.text) /\ e.conf > MinConf
              THEN << DetObs(Upper(e.text[1]), e.left + e.width \div 2,
                             e.top + e.height \div 2, e.conf) >>
              ELSE <<>>)
             \o ScanLetters(Tail(entries))

\* all_letters after the loop over the approaches
RECURSIVE PooledLetters(_)
PooledLetters(approaches) ==
    IF approaches = <<>> THEN <<>>
    ELSE (IF Head(approaches).raises THEN <<>> ELSE ScanLetters(Head(approaches).entries))
         \o PooledLetters(Tail(approaches))

Abs(n) == IF n < 0 THEN -n ELSE n

\* the test of lines 457-459
IsDuplicate(letter, existing) ==
    /\ letter.letter = existing.letter
    /\ Abs(letter.x - existing.x) < DupTolerance
    /\ Abs(letter.y - existing.y) < DupTolerance

RemoveAt(list, j) == SubSeq(list, 1, j - 1) \o SubSeq(list, j + 1, Len(list))

\* One turn of the outer loop of lines 454-468: `letter` against the list
\* unique_letters.  The inner loop stops (break) at the first existing entry
\* that `letter` duplicates; list.remove(existing) takes out the first entry
\* equal to it, which is that entry.
AddUnique(unique, letter) ==
    LET dups == { j \in 1..Len(unique) : IsDuplicate(letter, unique[j]) }
    IN  IF dups = {} THEN Append(unique, letter)
        ELSE LET j == CHOOSE i \in dups : \A m \in dups : i <= m
             IN  IF letter.confidence > unique[j].confidence
                 THEN Append(RemoveAt(unique, j), letter)
                 ELSE unique

RECURSIVE RemoveDuplicates(_, _)
RemoveDuplicates(all_letters, k) ==
    IF k = 0 THEN <<>> ELSE AddUnique(RemoveDuplicates(all_letters, k - 1), all_letters[k])

\* _detect_letters_full_scan; found.regions are the three approaches
detect_letters_full_scan(found) ==
    IF found.raises THEN <<>>
    ELSE LET all_letters == PooledLetters(found.regions)
         IN  RemoveDuplicates(all_letters, Len(all_letters))

\* list(set(c.upper() for c in text if c.isalpha())): the set; the list is
\* the set in the order the set iterates, which is any order
UniqueLetters(text) == { Upper(text[k]) : k \in { i \in 1..Len(text) : text[i] \in AlphaChars } }

Orders(S) == { o \in [1..Cardinality(S) -> S] : \A i, j \in 1..Cardinality(S) : i # j => o[i] # o[j] }

\* _detect_circular_wheel_pil: found.text is what pytesseract reads in the
\* bottom section, found.order the list unique_letters.  The loop index i
\* counts from 0.  int() cuts towards zero: centre + 0.7 radius is cut down,
\* centre - 0.7 radius (positive, as radius <= centre / 2) is cut down too.
PilWheelLetters(order, size) ==
    LET n == Len(order)
        bottom_y == Tenths(size.h, 6)
        radius == Min(size.w, size.h - bottom_y) \div 4
        center_x == size.w \div 2
        center_y == (size.h - bottom_y) \div 2
        Off(c, plus) == IF plus THEN c + (radius * 7) \div 10
                        ELSE c - ((radius * 7 + 9) \div 10)
    IN  [k \in 1..n |->
            DetObs(order[k],
                   Off(center_x, (k - 1) % 2 = 0),
                   Off(center_y, (k - 1) < n \div 2) + bottom_y,
                   70)]

detect_circular_wheel_pil(found, size) ==
    IF found.raises THEN <<>>
    ELSE IF found.text = <<>> THEN <<>>
    ELSE PilWheelLetters(found.order, size)

\* the crop boxes (x1, y1, x2, y2) of _detect_letters_sections_pil
Sections(size) ==
    << [x1 |-> 0, y1 |-> Tenths(size.h, 6), x2 |-> size.w, y2 |-> size.h],
       [x1 |-> 0, y1 |-> 0, x2 |-> size.w, y2 |-> Tenths(size.h, 4)],
       [x1 |-> 0, y1 |-> Tenths(size.h, 3), x2 |-> size.w, y2 |-> Tenths(size.h, 7)] >>

\* the letters one section appends: the j-th (from 0) 20 pixels further right
SectionLetters(sec, read) ==
    IF read.raises \/ read.text = <<>> THEN <<>>
    ELSE [k \in 1..Len(read.order) |->
            DetObs(read.order[k],
                   sec.x1 + (sec.x2 - sec.x1) \div 2 + (k - 1) * 20,
                   sec.y1 + (sec.y2 - sec.y1) \div 2,
                   60)]

\* "Remove duplicates while preserving order": the first of each letter stays
RECURSIVE FirstOfEachLetter(_, _)
FirstOfEachLetter(letters, k) ==
    IF k = 0 THEN <<>>
    ELSE LET before == FirstOfEachLetter(letters, k - 1)
         IN  IF \E j \in 1..Len(before) : before[j].letter = letters[k].letter
             THEN before ELSE Append(before, letters[k])

\* _detect_letters_sections_pil; found.regions are the three sections' reads
detect_letters_sections_pil(found, size) ==
    IF found.raises THEN <<>>
    ELSE LET letters == SectionLetters(Sections(size)[1], found.regions[1])
                        \o SectionLetters(Sections(size)[2], found.regions[2])
                        \o SectionLetters(Sections(size)[3], found.regions[3])
         IN  FirstOfEachLetter(letters, Len(letters))

----------------------------------------------------------------------------
(* _detect_letters, strategy by strategy *)

\* longest list of image_to_data entries drawn freely from ScanPool
MaxPooled == 3

Circle(px, py, r, text) == [x |-> px, y |-> py, r |-> r, text |-> text]
Box(px, py, w, h, area, text) ==
    [x |-> px, y |-> py, w |-> w, h |-> h, area |-> area, text |-> text]
Entry(text, conf, left, top) ==
    [text |-> text, conf |-> conf, left |-> left, top |-> top, width |-> 20, height |-> 20]

\* What HoughCircles (minDist 20) and the recognizer may find in the bottom
\* section: nothing; two tiles; a tile found twice, 20 pixels apart, and two
\* more; with a region that reads as two characters; with one that reads as
\* nothing.
CircleFinds ==
    { FoundRaises,
      Found(<<>>),
      Found(<< Circle(40, 50, 20, <<"A">>), Circle(100, 50, 20, <<"t">>) >>),
      Found(<< Circle(40, 50, 20, <<"A">>), Circle(100, 50, 20, <<"T">>),
               Circle(160, 50, 20, <<"A", "T">>) >>),
      Found(<< Circle(40, 50, 20, <<"A">>), Circle(60, 50, 20, <<"a">>),
               Circle(100, 50, 20, <<"T">>), Circle(160, 50, 20, <<"P">>) >>),
      Found(<< Circle(40, 50, 20, <<"A">>), Circle(100, 50, 20, <<"T">>),
               Circle(160, 50, 20, <<"P">>), Circle(100, 100, 20, <<>>) >>) }

\* What findContours and the recognizer may find: letter-sized boxes, a box
\* too large for the grid strategy, one too wide for the fallback strategy,
\* one too small for both, one that reads as a digit.
BoxFinds ==
    { FoundRaises,
      Found(<<>>),
      Found(<< Box(30, 40, 20, 20, 300, <<"A">>), Box(90, 40, 20, 20, 300, <<"T">>) >>),
      Found(<< Box(30, 40, 20, 20, 300, <<"A">>), Box(90, 40, 20, 20, 300, <<"T">>),
               Box(150, 40, 20, 20, 300, <<"p">>) >>),
      Found(<< Box(30, 40, 20, 20, 300, <<"A">>), Box(90, 40, 20, 20, 300, <<"T">>),
               Box(120, 20, 70, 70, 4000, <<"S">>) >>),
      Found(<< Box(30, 40, 20, 20, 300, <<"A">>), Box(90, 40, 20, 20, 300, <<"T">>),
               Box(130, 40, 60, 20, 1000, <<"E">>) >>),
      Found(<< Box(30, 40, 20, 20, 300, <<"A">>), Box(90, 40, 20, 20, 300, <<"T">>),
               Box(150, 40, 10, 10, 90, <<"P">>), Box(150, 80, 20, 20, 300, <<"1">>) >>) }

Approach(entries) == [raises |-> FALSE, entries |-> entries]
ApproachRaises == [raises |-> TRUE, entries |-> <<>>]

\* What image_to_data may give under the three thresholds.
ScanFinds ==
    { FoundRaises,
      Found(<< Approach(<<>>), Approach(<<>>), Approach(<<>>) >>),
      Found(<< Approach(<< Entry(<<"A">>, 50, 90, 40), Entry(<<"T">>, 60, 150, 40) >>),
               ApproachRaises,
               Approach(<< Entry(<<"a">>, 90, 95, 40), Entry(<<"S">>, 30, 20, 40) >>) >>),
      Found(<< Approach(<< Entry(<<"A">>, 50, 90, 40), Entry(<<"T">>, 60, 150, 40) >>),
               Approach(<< Entry(<<"A">>, 50, 90, 40), Entry(<<"P">>, 60, 30, 40) >>),
               Approach(<< Entry(<<"T">>, 40, 150, 42), Entry(<<"A", "T">>, 90, 90, 90) >>) >>) }

\* What pytesseract may read in a crop of the image, and the order in which
\* the set of its letters is listed.
Read(text, order) == [raises |-> FALSE, text |-> text, order |-> order]
ReadRaises == [raises |-> TRUE, text |-> <<>>, order |-> <<>>]

ReadsOf(texts) ==
    { ReadRaises } \cup UNION { { Read(t, o) : o \in Orders(UniqueLetters(t)) } : t \in texts }

WheelReads ==
    ReadsOf({ <<>>, <<"A", "t">>, <<"T", "a", "P", "1">>, <<"T", "A", "P", "E", "S">> })

SectionReads == ReadsOf({ <<>>, <<"A", "t">>, <<"T", "a", "P", "1">> })

\* as Viable, with the test `if letters:` alone
ViableAny(letters) == letters # <<>>

\* if letters and len(letters) >= 3
Viable(letters) == letters # <<>> /\ Len(letters) >= MinViable

\* one strategy of a call: what it was given and what it returned
Tried(name, found, letters) == [name |-> name, found |-> found, letters |-> letters]

\* the call returns `letters`, having run the strategies `tried`
Returns(tried, letters) ==
    /\ d_readable' = TRUE
    /\ strategies' = tried
    /\ detected' = letters

\* the call returns [] before any strategy: cv2.imread gave None, or
\* Image.open raised and the except clause returned []
ReturnsUnread ==
    /\ d_readable' = FALSE
    /\ strategies' = <<>>
    /\ detected' = <<>>

SolveQuiet ==
    /\ dictionary = {}
    /\ pc = "idle"
    /\ image = NoImage
    /\ synth_raises = FALSE
    /\ letters_data = <<>>
    /\ lengths_tried = {}
    /\ valid_words = <<>>
    /\ result = [raised |-> FALSE, swipes |-> <<>>]

\* _detect_letters with OpenCV: _detect_letters_opencv
DetectLettersOpencv ==
    /\ d_pc = "idle" /\ OPENCV_AVAILABLE
    /\ d_pc' = "done"
    /\ \/ ReturnsUnread
       \/ \E c \in CircleFinds : \E l1 \in { detect_circular_wheel(c, ImageSize.h) } :
            LET t1 == << Tried("circular_wheel", c, l1) >>
            IN  IF Viable(l1) THEN Returns(t1, l1)
                ELSE \E g \in BoxFinds : \E l2 \in { detect_grid_layout(g, ImageSize.h) } :
                  LET t2 == Append(t1, Tried("grid_layout", g, l2))
                  IN  IF Viable(l2) THEN Returns(t2, l2)
                      ELSE \E f \in BoxFinds : \E l3 \in { detect_letters_fallback(f) } :
                        LET t3 == Append(t2, Tried("fallback", f, l3))
                        IN  IF Viable(l3) THEN Returns(t3, l3)
                            ELSE \E a \in ScanFinds : \E l4 \in { detect_letters_full_scan(a) } :
                              Returns(Append(t3, Tried("full_scan", a, l4)), l4)
    /\ UNCHANGED <<OPENCV_AVAILABLE, solveVars, pathVars, dictVars, upVars>>

\* _detect_letters without OpenCV: _detect_letters_pil
DetectLettersPil ==
    /\ d_pc = "idle" /\ ~OPENCV_AVAILABLE
    /\ d_pc' = "done"
    /\ \/ ReturnsUnread
       \/ \E c \in WheelReads : \E l1 \in { detect_circular_wheel_pil(c, ImageSize) } :
            LET t1 == << Tried("circular_wheel_pil", c, l1) >>
            IN  IF Viable(l1) THEN Returns(t1, l1)
                ELSE \E r \in { FoundRaises }
                           \cup { Found(<<r1, r2, r3>>) : r1, r2, r3 \in SectionReads } :
                       \E l2 \in { detect_letters_sections_pil(r, ImageSize) } :
                         Returns(Append(t1, Tried("sections_pil", r, l2)), l2)
    /\ UNCHANGED <<OPENCV_AVAILABLE, solveVars, pathVars, dictVars, upVars>>

\* the caller has taken the list
DetectNext ==
    /\ d_pc = "done"
    /\ d_pc' = "idle"
    /\ ReturnsUnread
    /\ UNCHANGED <<OPENCV_AVAILABLE, solveVars, pathVars, dictVars, upVars>>

InitDetect ==
    /\ OPENCV_AVAILABLE \in BOOLEAN
    /\ DetQuiet
    /\ SolveQuiet /\ PathQuiet /\ DictQuiet /\ UpQuiet

NextDetect ==
    \/ DetectLettersOpencv
    \/ DetectLettersPil
    \/ DetectNext

SpecDetect == InitDetect /\ [][NextDetect]_vars

----------------------------------------------------------------------------
(* _detect_letters_full_scan on its own, over freely drawn candidates *)

\* the entries image_to_data may give: the letter A read at three places 25
\* pixels apart with two confidences, a T, and an entry at the threshold
ScanPool ==
    { Entry(<<"A">>, c, l, 40) : c \in {50, 90}, l \in {90, 115, 140} }
    \cup { Entry(<<"T">>, 50, 115, 40), Entry(<<"a">>, 30, 90, 40) }

\* one call of _detect_letters_full_scan: the first approach gives `entries`,
\* the second raises, the third gives nothing
FullScan ==
    /\ d_pc = "idle"
    /\ d_pc' = "done"
    /\ \E entries \in SeqsUpTo(ScanPool, MaxPooled) :
         \E a \in { Found(<< Approach(entries), ApproachRaises, Approach(<<>>) >>) } :
           \E l \in { detect_letters_full_scan(a) } :
             Returns(<< Tried("full_scan", a, l) >>, l)
    /\ UNCHANGED <<OPENCV_AVAILABLE, solveVars, pathVars, dictVars, upVars>>

InitScan ==
    /\ OPENCV_AVAILABLE = TRUE
    /\ DetQuiet
    /\ SolveQuiet /\ PathQuiet /\ DictQuiet /\ UpQuiet

NextScan ==
    \/ FullScan
    \/ DetectNext

SpecScan == InitScan /\ [][NextScan]_vars

----------------------------------------------------------------------------
(* _calculate_swipe_path on its own: calls with several words on one list  *)
(* of observations                                                         *)

\* the words of the calls: with a letter once, twice, three times; with a
\* letter no tile carries
PathWords ==
    { <<"A">>, <<"A", "A">>, <<"A", "A", "A">>, <<"T", "T">>,
      <<"T", "A", "P">>, <<"P", "A", "T">>, <<"A", "T", "A">>, <<"S", "A", "T">> }

\* one call self._calculate_swipe_path(word, letters_data)
CalculateSwipePath(word) ==
    /\ sp_prev' = IF sp_word = <<>> THEN <<>> ELSE [word |-> sp_word, path |-> sp_path]
    /\ sp_word' = word
    /\ sp_path' = calculate_swipe_path(word, sp_letters)
    /\ UNCHANGED <<sp_letters, OPENCV_AVAILABLE, solveVars, detVars, dictVars, upVars>>

InitPath ==
    /\ OPENCV_AVAILABLE = TRUE
    /\ sp_letters \in SeqsUpTo(ObsPool, MaxObs)
    /\ sp_word = <<>>
    /\ sp_path = <<>>
    /\ sp_prev = <<>>
    /\ SolveQuiet /\ DetQuiet /\ DictQuiet /\ UpQuiet

NextPath == \E word \in PathWords : CalculateSwipePath(word)

SpecPath == InitPath /\ [][NextPath]_vars

----------------------------------------------------------------------------
(* _load_dictionary.  A line of text is a sequence of characters; the      *)
(* cache file is a sequence of slots, a slot being what one flush of a     *)
(* writer's buffer puts in the file, here one line.                        *)

\* how many constructions of WordPuzzleSolver are followed: the one made when
\* the application is imported and one per request after it
MaxLoaders == 3

Loaders == 1..MaxLoaders

\* str.strip on a line, the only white space being " "
RECURSIVE LStrip(_)
LStrip(s) == IF s # <<>> /\ Head(s) = " " THEN LStrip(Tail(s)) ELSE s
RECURSIVE RStrip(_)
RStrip(s) == IF s # <<>> /\ s[Len(s)] = " " THEN RStrip(SubSeq(s, 1, Len(s) - 1)) ELSE s
Strip(s) == RStrip(LStrip(s))

\* str.upper on a string
UpperWord(w) == [k \in 1..Len(w) |-> Upper(w[k])]

\* the bytes a writer skipped when it wrote past the end of the file: they
\* read as NUL characters, with no end of line
Hole == << "NUL" >>

\* f.readlines(): the slots, a hole running into the line after it
RECURSIVE FileLines(_, _)
FileLines(slots, carry) ==
    IF slots = <<>> THEN (IF carry = <<>> THEN <<>> ELSE << carry >>)
    ELSE IF Head(slots) = Hole THEN FileLines(Tail(slots), carry \o Hole)
    ELSE << carry \o Head(slots) >> \o FileLines(Tail(slots), <<>>)

\* set(word.strip().upper() for word in f.readlines() if word.strip())
CacheWords(lines) ==
    { UpperWord(Strip(lines[k])) : k \in { i \in 1..Len(lines) : Strip(lines[i]) # <<>> } }

\* the loop over words_text.strip().split('\n'): strip, upper, and the filter
\* `word and len(word) >= 2 and word.isalpha()`
FetchedWords(lines) ==
    { w \in { UpperWord(Strip(lines[k])) : k \in 1..Len(lines) } :
        w # <<>> /\ Len(w) >= 2 /\ IsAlpha(w) }

\* the order of str on the words that pass the filter
LetterOrd(c) ==
    IF c = "A" THEN 1 ELSE IF c = "E" THEN 2 ELSE IF c = "P" THEN 3
    ELSE IF c = "S" THEN 4 ELSE 5

RECURSIVE WordLE(_, _)
WordLE(u, v) ==
    IF u = <<>> THEN TRUE
    ELSE IF v = <<>> THEN FALSE
    ELSE IF Head(u) = Head(v) THEN WordLE(Tail(u), Tail(v))
    ELSE LetterOrd(Head(u)) < LetterOrd(Head(v))

\* sorted(words)
RECURSIVE Sorted(_)
Sorted(words) ==
    IF words = {} THEN <<>>
    ELSE LET least == CHOOSE w \in words : \A v \in words : WordLE(w, v)
         IN  << least >> \o Sorted(words \ {least})

\* _get_fallback_dictionary: the words of the literal over the letters of
\* the model
FallbackDictionary ==
    { <<"T","A","P">>, <<"P","A","T">>, <<"E","A","T">>, <<"S","E","T">>,
      <<"T","A","P","E">> }

\* what requests.get(url, timeout=10) answers when it answers: good lines,
\* one in lower case with a blank after it, a one-letter line, a line with a
\* digit, an empty line
FetchedText ==
    << <<"T","A","P">>, <<"a","t"," ">>, <<"a">>, <<"T","1">>, <<>>, <<"P","A","T">> >>

\* the cache file before the first construction: none; the file a finished
\* fetch wrote; a file with arbitrary lines; an empty file
CacheFiles ==
    { [exists |-> FALSE, slots |-> <<>>, given |-> FALSE],
      [exists |-> TRUE, slots |-> Sorted(FetchedWords(FetchedText)), given |-> TRUE],
      [exists |-> TRUE, given |-> TRUE,
       slots |-> << <<"t","a","t"," ">>, <<" ">>, <<"a">>, <<"T","1">> >>],
      [exists |-> TRUE, slots |-> <<>>, given |-> TRUE] }

\* a construction not begun.  existed, read_ok, fetch_ok, cached and read
\* record what the construction met on its way; source is the return
\* statement it left by ("cache", "fetch", "fallback").
NewLoader ==
    [pc |-> "new", existed |-> FALSE, read_ok |-> FALSE, fetch_ok |-> FALSE,
     cached |-> FALSE, read |-> <<>>, words |-> {}, k |-> 0,
     dictionary |-> {}, source |-> "none"]

\* f.write at the writer's own offset, slot k: over what is there, at the
\* end, or past the end, leaving a hole
WriteAt(slots, k, line) ==
    IF k <= Len(slots) THEN [slots EXCEPT ![k] = line]
    ELSE slots \o [i \in 1..(k - 1 - Len(slots)) |-> Hole] \o << line >>

\* a step of a construction leaves the rest alone
DictOnly == UNCHANGED <<OPENCV_AVAILABLE, solveVars, detVars, pathVars, upVars>>

\* self.dictionary = the value _load_dictionary returns
Loaded(l, words, source) ==
    [l EXCEPT !.dictionary = words, !.source = source, !.pc = "done"]

\* WordPuzzleSolver(): __init__ calls _load_dictionary, which tests
\* os.path.exists(cache_file).  Construction 1 is app.py's at import; the
\* others are made by solve_word_puzzle, once the application serves.
Construct(p) ==
    /\ loaders[p].pc = "new"
    /\ p = 1 \/ loaders[1].pc = "done"
    /\ loaders' = [loaders EXCEPT ![p].existed = cache.exists,
                                  ![p].pc = IF cache.exists THEN "read" ELSE "fetch"]
    /\ UNCHANGED cache
    /\ DictOnly

\* lines 32-35: the file is read and its words are returned
ReadCache(p) ==
    /\ loaders[p].pc = "read"
    /\ \E lines \in { FileLines(cache.slots, <<>>) } :
         loaders' = [loaders EXCEPT
                        ![p] = Loaded([@ EXCEPT !.read_ok = TRUE, !.read = lines],
                                      CacheWords(lines), "cache")]
    /\ UNCHANGED cache
    /\ DictOnly

\* lines 36-37: open or readlines raises; the fetch is tried next
ReadCacheFails(p) ==
    /\ loaders[p].pc = "read"
    /\ loaders' = [loaders EXCEPT ![p].pc = "fetch"]
    /\ UNCHANGED cache
    /\ DictOnly

\* lines 44-53: the request is answered and the words are filtered
Fetch(p) ==
    /\ loaders[p].pc = "fetch"
    /\ loaders' = [loaders EXCEPT ![p].fetch_ok = TRUE,
                                  ![p].words = FetchedWords(FetchedText),
                                  ![p].pc = "open"]
    /\ UNCHANGED cache
    /\ DictOnly

\* lines 67-71: requests.get or raise_for_status raises (network error,
\* timeout, status not 2xx)
FetchFails(p) ==
    /\ loaders[p].pc = "fetch"
    /\ loaders' = [loaders EXCEPT ![p] = Loaded(@, FallbackDictionary, "fallback")]
    /\ UNCHANGED cache
    /\ DictOnly

\* line 57: open(cache_file, 'w') creates the file or cuts it to nothing
OpenCache(p) ==
    /\ loaders[p].pc = "open"
    /\ cache' = [cache EXCEPT !.exists = TRUE, !.slots = <<>>]
    /\ loaders' = [loaders EXCEPT ![p].k = 1, ![p].pc = "write"]
    /\ DictOnly

\* as OpenCacheFails, falling back to the built-in words
OpenCacheFailsFallback(p) ==
    /\ loaders[p].pc = "open"
    /\ loaders' = [loaders EXCEPT ![p] = Loaded(@, FallbackDictionary, "fallback")]
    /\ UNCHANGED cache
    /\ DictOnly

\* lines 61-65: open raises; the fetched words are returned all the same
OpenCacheFails(p) ==
    /\ loaders[p].pc = "open"
    /\ loaders' = [loaders EXCEPT ![p] = Loaded(@, @.words, "fetch")]
    /\ UNCHANGED cache
    /\ DictOnly

\* lines 58-59: the next word of sorted(words) reaches the file
WriteCache(p) ==
    /\ loaders[p].pc = "write"
    /\ loaders[p].k <= Cardinality(loaders[p].words)
    /\ cache' = [cache EXCEPT
                    !.slots = WriteAt(@, loaders[p].k, Sorted(loaders[p].words)[loaders[p].k])]
    /\ loaders' = [loaders EXCEPT ![p].k = @ + 1]
    /\ DictOnly

\* lines 61-65: a write raises; what was written stays in the file
WriteCacheFails(p) ==
    /\ loaders[p].pc = "write"
    /\ loaders[p].k <= Cardinality(loaders[p].words)
    /\ loaders' = [loaders EXCEPT ![p] = Loaded(@, @.words, "fetch")]
    /\ UNCHANGED cache
    /\ DictOnly

\* lines 59-65: every word is written, the file is closed
CloseCache(p) ==
    /\ loaders[p].pc = "write"
    /\ loaders[p].k > Cardinality(loaders[p].words)
    /\ loaders' = [loaders EXCEPT ![p] = Loaded([@ EXCEPT !.cached = TRUE], @.words, "fetch")]
    /\ UNCHANGED cache
    /\ DictOnly

InitDict ==
    /\ OPENCV_AVAILABLE = TRUE
    /\ cache \in CacheFiles
    /\ loaders = [p \in Loaders |-> NewLoader]
    /\ SolveQuiet /\ DetQuiet /\ PathQuiet /\ UpQuiet

NextDict ==
    \E p \in Loaders :
        \/ Construct(p)
        \/ ReadCache(p)
        \/ ReadCacheFails(p)
        \/ Fetch(p)
        \/ FetchFails(p)
        \/ OpenCache(p)
        \/ OpenCacheFails(p)
        \/ WriteCache(p)
        \/ WriteCacheFails(p)
        \/ CloseCache(p)

SpecDict == InitDict /\ [][NextDict]_vars

----------------------------------------------------------------------------
(* The upload endpoints of src/app.py: /solve (solve_puzzle) and /test     *)
(* (test_upload, POST), which treat the uploaded file the same way.        *)

\* how many requests are followed; their handlers may run side by side
MaxRequests == 2

Requests == 1..MaxRequests

Endpoints == { "/solve", "/test" }

\* secure_filename(file.filename) for the uploads that pass the checks: the
\* client chooses the name, and two requests may choose the same
FileNames == { "a.png", "b.png" }

NewRequest == [pc |-> "new", endpoint |-> "none", name |-> "none", status |-> 0]

\* the file saved under `name`, whoever saved it
Named(name) == { f \in uploads : f.name = name }

\* a step of a handler leaves the rest alone
UploadOnly == UNCHANGED <<OPENCV_AVAILABLE, solveVars, detVars, pathVars, dictVars>>

\* lines 52-63 (93-107): no file part, no file name, or an extension that is
\* not allowed; the request is answered and nothing is saved
Reject(r) ==
    /\ requests[r].pc = "new"
    /\ \E e \in Endpoints :
         requests' = [requests EXCEPT ![r] = [pc |-> "answered", endpoint |-> e,
                                              name |-> "none",
                                              status |-> IF e = "/solve" THEN 400 ELSE 302]]
    /\ UNCHANGED uploads
    /\ UploadOnly

\* lines 55-67 (97-111): the upload passes the checks; filepath is set
Accept(r) ==
    /\ requests[r].pc = "new"
    /\ \E e \in Endpoints, n \in FileNames :
         requests' = [requests EXCEPT ![r] = [pc |-> "save", endpoint |-> e,
                                              name |-> n, status |-> 0]]
    /\ UNCHANGED uploads
    /\ UploadOnly

\* line 68 (112): file.save(filepath), over a file of that name if there is one
Save(r) ==
    /\ requests[r].pc = "save"
    /\ uploads' = (uploads \ Named(requests[r].name)) \cup { [name |-> requests[r].name, by |-> r] }
    /\ requests' = [requests EXCEPT ![r].pc = "solve"]
    /\ UploadOnly

\* line 68 (112) raises before a file is made; lines 83-85 (127-130) answer
SaveFails(r) ==
    /\ requests[r].pc = "save"
    /\ requests' = [requests EXCEPT ![r].pc = "answered",
                                    ![r].status = IF requests[r].endpoint = "/solve" THEN 500 ELSE 302]
    /\ UNCHANGED uploads
    /\ UploadOnly

\* line 73 (117): solve_word_puzzle(filepath) returns a result, with swipes
\* or without
Solve(r) ==
    /\ requests[r].pc = "solve"
    /\ requests' = [requests EXCEPT ![r].pc = "remove"]
    /\ UNCHANGED uploads
    /\ UploadOnly

\* line 73 (117): solve_word_puzzle(filepath) raises; lines 83-85 (127-130)
\* answer
SolveRaises(r) ==
    /\ requests[r].pc = "solve"
    /\ requests' = [requests EXCEPT ![r].pc = "answered",
                                    ![r].status = IF requests[r].endpoint = "/solve" THEN 500 ELSE 302]
    /\ UNCHANGED uploads
    /\ UploadOnly

\* lines 76-81 (120-125): os.remove(filepath) removes the file of that name,
\* or finds none (the exception is passed over); the result is answered
Remove(r) ==
    /\ requests[r].pc = "remove"
    /\ uploads' = uploads \ Named(requests[r].name)
    /\ requests' = [requests EXCEPT ![r].pc = "answered", ![r].status = 200]
    /\ UploadOnly

\* lines 76-81 (120-125): os.remove(filepath) raises with the file in place
\* (`except: pass`); the result is answered
RemoveFails(r) ==
    /\ requests[r].pc = "remove"
    /\ Named(requests[r].name) # {}
    /\ requests' = [requests EXCEPT ![r].pc = "answered", ![r].status = 200]
    /\ UNCHANGED uploads
    /\ UploadOnly

InitUpload ==
    /\ OPENCV_AVAILABLE = TRUE
    /\ uploads = {}
    /\ requests = [r \in Requests |-> NewRequest]
    /\ SolveQuiet /\ DetQuiet /\ PathQuiet /\ DictQuiet

NextUpload ==
    \E r \in Requests :
        \/ Reject(r)
        \/ Accept(r)
        \/ Save(r)
        \/ SaveFails(r)
        \/ Solve(r)
        \/ SolveRaises(r)
        \/ Remove(r)
        \/ RemoveFails(r)

SpecUpload == InitUpload /\ [][NextUpload]_vars

----------------------------------------------------------------------------
(* Properties *)

Swipes == result.swipes
Done == pc = "done"
DistinctLetters(ld) == { ld[i].letter : i \in 1..Len(ld) }
HasWord(list, w) == \E k \in 1..Len(list) : list[k].word = w

C2_NoPositionReused ==
    Done =>
        \A c \in 1..Len(Swipes) :
            LET path == Swipes[c].path
            IN  /\ \A i, j \in 1..Len(path) : i # j => path[i].src # path[j].src
                /\ \A i \in 1..Len(path) :
                       /\ path[i].src \in 1..Len(letters_data)
                       /\ path[i].x = letters_data[path[i].src].x
                       /\ path[i].y = letters_data[path[i].src].y
                       /\ path[i].letter = letters_data[path[i].src].letter

\* a returned word that uses a letter twice, from two tiles of that letter
C2_Witness ==
    /\ Done
    /\ \E c \in 1..Len(Swipes) :
           \E i, j \in 1..Len(Swipes[c].word) :
               i # j /\ Swipes[c].word[i] = Swipes[c].word[j]

\* C3: every returned candidate's word is in the dictionary and its path is
\* as long as the word.
C3_WordInDictionary ==
    Done =>
        \A c \in 1..Len(Swipes) :
            /\ Swipes[c].word \in dictionary
            /\ Len(Swipes[c].path) = Len(Swipes[c].word)

\* candidates of two lengths returned
C3_Witness ==
    /\ Done
    /\ \E c, d \in 1..Len(Swipes) : Len(Swipes[c].word) = 3 /\ Len(Swipes[d].word) = 4

\* C4: with two observations of the same letter, each realizable word is
\* produced exactly once; stated on the claim's own case: for A@(0,0),
\* A@(5,5), T@(10,0), P@(15,0) and the dictionary {"TAP"} the output is
\* exactly one candidate "TAP", using one A tile once.
C4_EachWordOnce ==
    (Done /\ letters_data = TilesAATP /\ dictionary = DictTAP /\ ~synth_raises) =>
        /\ Len(Swipes) = 1
        /\ Swipes[1].word = <<"T","A","P">>
        /\ Cardinality({ i \in 1..3 : Swipes[1].path[i].letter = "A" }) = 1

\* C5 as stated: no returned word is longer than the number of distinct
\* letters among the observations, nor longer than 8.
C5_AtMostDistinctLetters ==
    Done =>
        \A c \in 1..Len(Swipes) :
            /\ Len(Swipes[c].word) <= Cardinality(DistinctLetters(letters_data))
            /\ Len(Swipes[c].word) <= 8

\* C5, amended: the word lengths tried never exceed the number of
\* observations (tiles of the same letter counted each), nor 8, and every
\* returned word has one of the lengths tried.
C5_AtMostObservations ==
    Done =>
        /\ \A length \in lengths_tried : length <= Len(letters_data) /\ length <= 8
        /\ \A c \in 1..Len(Swipes) : Len(Swipes[c].word) \in lengths_tried

\* a returned word longer than the number of distinct letters observed
C5_Witness ==
    /\ Done
    /\ \E c \in 1..Len(Swipes) :
           Len(Swipes[c].word) > Cardinality(DistinctLetters(letters_data))

\* C6: every dictionary word of a length from 3 to min(8, number of distinct
\* letters) that is a permutation without repetition of distinct letters
\* observed is realized as a candidate before truncation.
C6_EveryLengthConsidered ==
    (Done /\ ~synth_raises) =>
        \A w \in dictionary :
            ( /\ 3 <= Len(w)
              /\ Len(w) <= Min(8, Cardinality(DistinctLetters(letters_data)))
              /\ \A i, j \in 1..Len(w) : i # j => w[i] # w[j]
              /\ \A i \in 1..Len(w) : w[i] \in DistinctLetters(letters_data) )
            => HasWord(valid_words, w)

\* C7: the returned list is in non-increasing order of score, and a longer
\* word never has a lower score than, nor comes after, a shorter one.
C7_LongerFirst ==
    Done =>
        /\ \A c, d \in 1..Len(Swipes) : c < d => Swipes[c].score >= Swipes[d].score
        /\ \A c, d \in 1..Len(Swipes) :
               Len(Swipes[c].word) > Len(Swipes[d].word)
                   => Swipes[c].score >= Swipes[d].score /\ c < d

\* words of three lengths returned, although the loop finds the short ones first
C7_Witness ==
    /\ Done
    /\ \E c, d, e \in 1..Len(Swipes) :
           /\ Len(Swipes[c].word) = 7 /\ Len(Swipes[d].word) = 5 /\ Len(Swipes[e].word) = 4

\* C8: the output is the first 20 entries of the score-descending list of
\* all realized candidates: never more than 20, and no candidate left out
\* has a strictly higher score than one returned.
C8_TopOfTheList ==
    (Done /\ ~synth_raises) =>
        /\ Len(Swipes) <= 20
        /\ Len(Swipes) = Min(20, Len(valid_words))
        /\ \A c \in 1..Len(Swipes) : Swipes[c] = valid_words[c]
        /\ \A c, d \in 1..Len(valid_words) : c < d => valid_words[c].score >= valid_words[d].score
        /\ \A c \in 1..Len(Swipes) : \A d \in (Len(Swipes) + 1)..Len(valid_words) :
               valid_words[d].score <= Swipes[c].score

\* more than 20 candidates realized, some shorter ones left out
C8_Witness ==
    /\ Done /\ Len(valid_words) > 20 /\ Len(Swipes) = 20
    /\ valid_words[Len(valid_words)].score < Swipes[1].score

\* C10: for an observation list of fewer than 3 entries and any dictionary
\* the output is empty and nothing is raised; no returned word is shorter
\* than 3 letters.
C10_MinimumThree ==
    Done =>
        /\ Len(letters_data) < 3 => Swipes = <<>> /\ ~result.raised
        /\ \A c \in 1..Len(Swipes) : Len(Swipes[c].word) >= 3

\* two tiles that spell a two-letter dictionary word, and nothing returned
C10_Witness ==
    /\ Done /\ Len(letters_data) = 2 /\ ~synth_raises
    /\ [k \in 1..2 |-> letters_data[k].letter] \in dictionary
    /\ Swipes = <<>>

DetDone == d_pc = "done"
StrategyNames == [k \in 1..Len(strategies) |-> strategies[k].name]
IsPrefixOf(p, w) == Len(p) <= Len(w) /\ p = SubSeq(w, 1, Len(p))

\* the rule of the chain, for the order `chain`: the strategies run are the
\* first ones of the chain; each ran because every one before it gave fewer
\* than 3 observations; the list returned is the last one's, and the last
\* one is the first that gave 3 or more or, failing that, the chain's last
ChainRule(chain) ==
    /\ strategies # <<>>
    /\ IsPrefixOf(StrategyNames, chain)
    /\ \A k \in 1..(Len(strategies) - 1) : Len(strategies[k].letters) < 3
    /\ detected = strategies[Len(strategies)].letters
    /\ Len(detected) < 3 => Len(strategies) = Len(chain)

\* C11 as stated: for an image that loads, detect runs circular-wheel, grid,
\* general fallback, full-image scan in this order, each only if every
\* earlier one gave fewer than 3 observations, and returns the first result
\* of 3 or more, else the full scan's result as it is.
C11_FourStrategyChain ==
    (DetDone /\ d_readable) =>
        ChainRule(<< "circular_wheel", "grid_layout", "fallback", "full_scan" >>)

\* C11, amended: that chain is the one run when OpenCV is available; without
\* OpenCV the chain is the PIL circular-wheel strategy, then the PIL
\* sectional scan, under the same rule.
C11_ChainPerBackend ==
    (DetDone /\ d_readable) =>
        IF OPENCV_AVAILABLE
        THEN ChainRule(<< "circular_wheel", "grid_layout", "fallback", "full_scan" >>)
        ELSE ChainRule(<< "circular_wheel_pil", "sections_pil" >>)

\* all four strategies ran and the full scan's two observations are returned
C11_Witness ==
    /\ DetDone /\ OPENCV_AVAILABLE
    /\ Len(strategies) = 4 /\ Len(strategies[3].letters) = 2 /\ Len(detected) = 2

\* C12: in every list detect returns, whichever strategy produced it, no two
\* observations lie within the 30-pixel tolerance of each other.
C12_NoNearDuplicates ==
    DetDone =>
        \A i, j \in 1..Len(detected) :
            i # j => ~( /\ Abs(detected[i].x - detected[j].x) < 30
                        /\ Abs(detected[i].y - detected[j].y) < 30 )

\* all_letters of the full scan the call ran
Pooled == PooledLetters(strategies[1].found.regions)
Within(a, b) == Abs(a.x - b.x) < 30 /\ Abs(a.y - b.y) < 30

\* C18: after the full scan's de-duplication pass, no two retained
\* observations of the same letter lie within 30 pixels of each other on both
\* axes, and for every pooled candidate that was dropped an observation of at
\* least its confidence is retained within that tolerance.
C18_DedupSound ==
    (DetDone /\ strategies # <<>> /\ strategies[1].name = "full_scan") =>
        /\ \A i, j \in 1..Len(detected) :
              (i # j /\ detected[i].letter = detected[j].letter)
                  => ~Within(detected[i], detected[j])
        /\ \A k \in 1..Len(Pooled) :
              (\A i \in 1..Len(detected) : detected[i] # Pooled[k])
                  => \E i \in 1..Len(detected) :
                        /\ Within(detected[i], Pooled[k])
                        /\ detected[i].confidence >= Pooled[k].confidence

Count(seq, c) == Cardinality({ i \in 1..Len(seq) : seq[i] = c })
TileLetters == [i \in 1..Len(sp_letters) |-> sp_letters[i].letter]
Sources(path) == { path[i].src : i \in 1..Len(path) }

\* C17: _calculate_swipe_path gives the i-th letter of the word the first
\* observation, in detection order, that carries the letter and that no
\* earlier letter of the word took, and the path entry has that observation's
\* x, y and letter; it returns no path exactly when the word has some letter
\* more often than the observations have it.  This holds of every call,
\* whatever the calls before it took.
C17_FirstUnusedInOrder ==
    sp_word # <<>> =>
        /\ sp_path = <<>>
              <=> \E i \in 1..Len(sp_word) :
                      Count(sp_word, sp_word[i]) > Count(TileLetters, sp_word[i])
        /\ sp_path # <<>> =>
              /\ Len(sp_path) = Len(sp_word)
              /\ \A i \in 1..Len(sp_path) :
                    LET j == sp_path[i].src
                    IN  /\ j \in 1..Len(sp_letters)
                        /\ sp_letters[j].letter = sp_word[i]
                        /\ \A k \in 1..(i - 1) : sp_path[k].src # j
                        /\ \A m \in 1..(j - 1) :
                              sp_letters[m].letter = sp_word[i]
                                  => \E k \in 1..(i - 1) : sp_path[k].src = m
                        /\ sp_path[i].x = sp_letters[j].x
                        /\ sp_path[i].y = sp_letters[j].y
                        /\ sp_path[i].letter = sp_letters[j].letter

\* two calls with different words on the same observations, both with a
\* path, the second with a letter twice on two observations, one of which
\* served the first word too
C17_Witness ==
    /\ sp_prev # <<>> /\ sp_prev.word # sp_word
    /\ sp_prev.path # <<>> /\ sp_path # <<>>
    /\ Sources(sp_prev.path) \cap Sources(sp_path) # {}
    /\ \E i, k \in 1..Len(sp_word) :
          i # k /\ sp_word[i] = sp_word[k] /\ sp_path[i].src # sp_path[k].src

Finished == { p \in DOMAIN loaders : loaders[p].pc = "done" }

\* C13: a construction always ends with a dictionary, taken by precedence:
\* the cache's words when the cache file exists and can be read; otherwise
\* the fetched words when the fetch succeeds, also when the cache cannot be
\* written; otherwise the built-in fallback set.
C13_SourcePrecedence ==
    \A p \in Finished :
        LET l == loaders[p]
        IN  IF l.existed /\ l.read_ok
            THEN l.source = "cache" /\ l.dictionary = CacheWords(l.read)
            ELSE IF l.fetch_ok
            THEN l.source = "fetch" /\ l.dictionary = FetchedWords(FetchedText)
            ELSE l.source = "fallback" /\ l.dictionary = FallbackDictionary

\* the cache file was there and could not be read, the fetch succeeded, the
\* cache could not be written: the fetched words are the dictionary
C13_Witness ==
    \E p \in Finished :
        /\ loaders[p].existed /\ ~loaders[p].read_ok
        /\ loaders[p].fetch_ok /\ ~loaders[p].cached
        /\ loaders[p].source = "fetch"

UpperLetters == { "A", "E", "P", "S", "T" }

\* C14: whatever the source, every word of a loaded dictionary is made of
\* upper-case letters only and has at least 2 of them.
C14_WordsWellFormed ==
    \A p \in Finished :
        \A w \in loaders[p].dictionary :
            Len(w) >= 2 /\ \A k \in 1..Len(w) : w[k] \in UpperLetters

\* C15: the load chain runs at most once in the life of the process, however
\* many requests are served.
C15_LoadedOnce ==
    Cardinality({ p \in DOMAIN loaders : loaders[p].pc # "new" }) <= 1

\* C19: where no cache file was there before the first construction, a
\* construction that returns the words of the cache file holds the complete
\* set of words a fetch gives.
C19_CacheReadComplete ==
    \A p \in Finished :
        (~cache.given /\ loaders[p].source = "cache")
            => loaders[p].dictionary = FetchedWords(FetchedText)

\* C16: when a /solve request has been answered, whatever the outcome of the
\* solve call, the file it saved is no longer in the upload folder.
C16_UploadRemoved ==
    \A r \in DOMAIN requests :
        (requests[r].pc = "answered" /\ requests[r].endpoint = "/solve")
            => \A f \in uploads : f.by # r

====
